---- MODULE Spec2Model ----
(***************************************************************************)
(* Model of src/main.py: the piecewise wind-turbine power curve            *)
(* compute_power and its list wrapper compute_power_series.                *)
(*                                                                         *)
(* Python floats are modelled as exact rationals <<n, d>> with d > 0 in    *)
(* lowest terms, so that 5.5, 7.5, 1.875 and 24.999 are representable and  *)
(* the divisions of _interp_weight are computed, not assumed.              *)
(* A call's outcome is a record: exc = "none" with the returned value, or  *)
(* exc = "ValueError" (the source's only error, the spec's InvalidConfig). *)
(***************************************************************************)
EXTENDS Integers, Sequences, FiniteSets, TLC

\* ---------- bounds of the model ----------
\* thresholds v_in, v_rated, v_out range over the integers -MaxT..MaxT
MaxT == 3
\* prated ranges over -1..MaxP
MaxP == 2
\* wind speeds are the multiples of 1/MaxD between -(MaxT+1) and MaxT+1
MaxD == 2
\* longest sequence of speeds fed to compute_power_series
MaxLen == 2

\* ---------- rational arithmetic (Python float operators) ----------
Abs(x) == IF x < 0 THEN -x ELSE x

RECURSIVE GCD(_, _)
GCD(a, b) == IF b = 0 THEN a ELSE GCD(b, a % b)

\* the rational n/d (d # 0) in lowest terms with positive denominator
Rat(n, d) ==
    LET g == GCD(Abs(n), Abs(d))
        s == IF d < 0 THEN -1 ELSE 1
    IN  << (s * n) \div g, (s * d) \div g >>

Zero == Rat(0, 1)
One == Rat(1, 1)

RLt(a, b) == a[1] * b[2] < b[1] * a[2]
RLe(a, b) == a[1] * b[2] <= b[1] * a[2]
RGe(a, b) == RLe(b, a)
RGt(a, b) == RLt(b, a)
RSub(a, b) == Rat(a[1] * b[2] - b[1] * a[2], a[2] * b[2])
RMul(a, b) == Rat(a[1] * b[1], a[2] * b[2])
\* a / b, used only where the source has excluded b = 0
RDiv(a, b) == Rat(a[1] * b[2], a[2] * b[1])
\* a ** 3
RCube(a) == Rat(a[1] * a[1] * a[1], a[2] * a[2] * a[2])

\* ---------- outcomes of a call ----------
Return(x) == [exc |-> "none", val |-> x]
Raise == [exc |-> "ValueError", val |-> Zero]
NoCall == [exc |-> "nocall", val |-> Zero]

\* ---------- defaults of the signature ----------
PRATED_DEFAULT == 15
V_IN_DEFAULT == 3
V_RATED_DEFAULT == 11
V_OUT_DEFAULT == 25

DefaultThresholds ==
    [prated |-> Rat(PRATED_DEFAULT, 1), v_in |-> Rat(V_IN_DEFAULT, 1),
     v_rated |-> Rat(V_RATED_DEFAULT, 1), v_out |-> Rat(V_OUT_DEFAULT, 1)]

\* ---------- small helpers ----------
\* clamp01 without its lower bound
clamp01_mut_nolower(x) ==
    IF RGt(x, One) THEN One ELSE x

clamp01(x) ==
    IF RLt(x, Zero) THEN Zero
    ELSE IF RGt(x, One) THEN One
    ELSE x

\* each validator is TRUE when the source function raises ValueError
validate_thresholds(v_in, v_rated, v_out) ==
    ~(RLt(v_in, v_rated) /\ RLt(v_rated, v_out))

validate_interpolation(name) == name \notin {"linear", "cubic"}

\* validate_prated with < in place of <=
validate_prated_mut_strict(prated) == RLt(prated, Zero)

validate_prated(prated) == RLe(prated, Zero)

\* _interp_weight with the linear ramp running from 1 at v_in down to 0
interp_weight_mut_reversed(v, v_in, v_rated, interpolation) ==
    IF interpolation = "linear"
    THEN LET denom == RSub(v_rated, v_in)
         IN  IF RLe(denom, Zero) THEN Raise
             ELSE Return(clamp01(RDiv(RSub(v_rated, v), denom)))
    ELSE IF RLe(v_rated, Zero) THEN Raise
         ELSE Return(clamp01(RDiv(RCube(v), RCube(v_rated))))

\* _interp_weight with the cubic curve shifted so that it is 0 at v_in
interp_weight_mut_shifted(v, v_in, v_rated, interpolation) ==
    IF interpolation = "linear"
    THEN LET denom == RSub(v_rated, v_in)
         IN  IF RLe(denom, Zero) THEN Raise
             ELSE Return(clamp01(RDiv(RSub(v, v_in), denom)))
    ELSE IF RLe(v_rated, Zero) THEN Raise
         ELSE Return(clamp01(RDiv(RSub(RCube(v), RCube(v_in)),
                                  RSub(RCube(v_rated), RCube(v_in)))))

\* _interp_weight with ** 2 in place of ** 3
interp_weight_mut_square(v, v_in, v_rated, interpolation) ==
    IF interpolation = "linear"
    THEN LET denom == RSub(v_rated, v_in)
         IN  IF RLe(denom, Zero) THEN Raise
             ELSE Return(clamp01(RDiv(RSub(v, v_in), denom)))
    ELSE IF RLe(v_rated, Zero) THEN Raise
         ELSE Return(clamp01(RDiv(RMul(v, v), RMul(v_rated, v_rated))))

interp_weight(v, v_in, v_rated, interpolation) ==
    IF interpolation = "linear"
    THEN LET denom == RSub(v_rated, v_in)
         IN  IF RLe(denom, Zero) THEN Raise
             ELSE Return(clamp01(RDiv(RSub(v, v_in), denom)))
    ELSE IF RLe(v_rated, Zero) THEN Raise
         ELSE Return(clamp01(RDiv(RCube(v), RCube(v_rated))))

\* ---------- core API ----------
\* compute_power with v > v_out in place of v >= v_out
compute_power_mut_cutout(v, c) ==
    IF validate_prated(c.prated) THEN Raise
    ELSE IF validate_thresholds(c.v_in, c.v_rated, c.v_out) THEN Raise
    ELSE IF validate_interpolation(c.interpolation) THEN Raise
    ELSE IF RLt(v, c.v_in) \/ RGt(v, c.v_out) THEN Return(Zero)
    ELSE IF RGe(v, c.v_rated) THEN Return(c.prated)
    ELSE LET g == interp_weight(v, c.v_in, c.v_rated, c.interpolation)
         IN  IF g.exc # "none" THEN g
             ELSE Return(RMul(g.val, c.prated))

\* compute_power with v_rated in place of v_out in the zero-power test
compute_power_mut_plateau(v, c) ==
    IF validate_prated(c.prated) THEN Raise
    ELSE IF validate_thresholds(c.v_in, c.v_rated, c.v_out) THEN Raise
    ELSE IF validate_interpolation(c.interpolation) THEN Raise
    ELSE IF RLt(v, c.v_in) \/ RGe(v, c.v_rated) THEN Return(Zero)
    ELSE LET g == interp_weight(v, c.v_in, c.v_rated, c.interpolation)
         IN  IF g.exc # "none" THEN g
             ELSE Return(RMul(g.val, c.prated))

compute_power(v, c) ==
    IF validate_prated(c.prated) THEN Raise
    ELSE IF validate_thresholds(c.v_in, c.v_rated, c.v_out) THEN Raise
    ELSE IF validate_interpolation(c.interpolation) THEN Raise
    ELSE IF RLt(v, c.v_in) \/ RGe(v, c.v_out) THEN Return(Zero)
    ELSE IF RGe(v, c.v_rated) THEN Return(c.prated)
    ELSE LET g == interp_weight(v, c.v_in, c.v_rated, c.interpolation)
         IN  IF g.exc # "none" THEN g
             ELSE Return(RMul(g.val, c.prated))

\* the three checks compute_power_series makes before it builds the list
series_validate(c) ==
    \/ validate_prated(c.prated)
    \/ validate_thresholds(c.v_in, c.v_rated, c.v_out)
    \/ validate_interpolation(c.interpolation)

\* ---------- inputs ----------
Interpolations == {"linear", "cubic", "quadratic"}

DefaultConfigs ==
    {[prated |-> DefaultThresholds.prated, v_in |-> DefaultThresholds.v_in,
      v_rated |-> DefaultThresholds.v_rated, v_out |-> DefaultThresholds.v_out,
      interpolation |-> m] : m \in {"linear", "cubic"}}

Configs ==
    {[prated |-> Rat(p, 1), v_in |-> Rat(a, 1), v_rated |-> Rat(b, 1),
      v_out |-> Rat(c, 1), interpolation |-> m] :
        p \in (0 - 1)..MaxP, a \in (0 - MaxT)..MaxT, b \in (0 - MaxT)..MaxT,
        c \in (0 - MaxT)..MaxT, m \in Interpolations}
    \cup DefaultConfigs

\* speeds tried with the default configuration: one or more in each region
\* and on each boundary (0, 2.9, 3, 5.5, 7, 11, 24.999, 25, 30)
DemoSpeeds ==
    {Rat(0, 1), Rat(29, 10), Rat(3, 1), Rat(11, 2), Rat(7, 1),
     Rat(11, 1), Rat(24999, 1000), Rat(25, 1), Rat(30, 1)}

GridSpeeds ==
    {Rat(n, MaxD) : n \in (0 - (MaxT + 1) * MaxD)..((MaxT + 1) * MaxD)}

SpeedsOf(c) == IF c \in DefaultConfigs THEN DemoSpeeds ELSE GridSpeeds

\* the speeds an iterable handed to compute_power_series yields
SeriesSpeedsOf(c) ==
    IF c \in DefaultConfigs THEN DemoSpeeds
    ELSE {Rat(n, 1) : n \in (0 - (MaxT + 1))..(MaxT + 1)}

\* ---------- state ----------
VARIABLES
    cfg,      \* the configuration arguments of the call
    pc,       \* "idle", "returned" (scalar call over), "iterating", "done", "raised"
    v,        \* argument of the scalar call
    p,        \* outcome of the scalar call
    speeds,   \* the speeds the list comprehension has taken from the iterable
    out,      \* the list under construction
    ret,      \* outcome of compute_power_series
    evals     \* number of compute_power calls made by compute_power_series

vars == <<cfg, pc, v, p, speeds, out, ret, evals>>

Init ==
    /\ cfg \in Configs
    /\ pc = "idle"
    /\ v = Zero
    /\ p = NoCall
    /\ speeds = <<>>
    /\ out = <<>>
    /\ ret = NoCall
    /\ evals = 0

\* compute_power(x, **cfg)
CallComputePower(x) ==
    /\ pc = "idle"
    /\ v' = x
    /\ p' = compute_power(x, cfg)
    /\ pc' = "returned"
    /\ UNCHANGED <<cfg, speeds, out, ret, evals>>

\* compute_power_series without its own validation
SeriesValidate_mut_skip ==
    /\ pc = "idle"
    /\ pc' = "iterating"
    /\ UNCHANGED <<cfg, v, p, speeds, out, ret, evals>>

\* compute_power_series: the validation that precedes the comprehension
SeriesValidate ==
    /\ pc = "idle"
    /\ IF series_validate(cfg)
       THEN /\ pc' = "raised"
            /\ ret' = Raise
       ELSE /\ pc' = "iterating"
            /\ ret' = ret
    /\ UNCHANGED <<cfg, v, p, speeds, out, evals>>

\* the comprehension building its list back to front
SeriesNext_mut_prepend(x) ==
    /\ pc = "iterating"
    /\ Len(speeds) < MaxLen
    /\ speeds' = Append(speeds, x)
    /\ evals' = evals + 1
    /\ LET r == compute_power(x, cfg)
       IN  IF r.exc = "none"
           THEN /\ out' = <<r.val>> \o out
                /\ UNCHANGED <<pc, ret>>
           ELSE /\ out' = <<>>
                /\ pc' = "raised"
                /\ ret' = r
    /\ UNCHANGED <<cfg, v, p>>

\* one step of the comprehension: the iterable yields x
SeriesNext(x) ==
    /\ pc = "iterating"
    /\ Len(speeds) < MaxLen
    /\ speeds' = Append(speeds, x)
    /\ evals' = evals + 1
    /\ LET r == compute_power(x, cfg)
       IN  IF r.exc = "none"
           THEN /\ out' = Append(out, r.val)
                /\ UNCHANGED <<pc, ret>>
           ELSE /\ out' = <<>>
                /\ pc' = "raised"
                /\ ret' = r
    /\ UNCHANGED <<cfg, v, p>>

\* the iterable is exhausted: the list is returned
SeriesReturn ==
    /\ pc = "iterating"
    /\ pc' = "done"
    /\ ret' = Return(out)
    /\ UNCHANGED <<cfg, v, p, speeds, out, evals>>

Next ==
    \/ \E x \in SpeedsOf(cfg) : CallComputePower(x)
    \/ SeriesValidate
    \/ \E x \in SeriesSpeedsOf(cfg) : SeriesNext(x)
    \/ SeriesReturn

Spec == Init /\ [][Next]_vars

TypeOK ==
    /\ pc \in {"idle", "returned", "iterating", "done", "raised"}
    /\ Len(speeds) <= MaxLen
    /\ evals \in 0..MaxLen

\* ---------- vocabulary of the properties ----------
\* the configuration invariant of the data model, stated on the arguments
ValidConfig(c) ==
    /\ c.prated[1] > 0
    /\ c.v_in[1] * c.v_rated[2] < c.v_rated[1] * c.v_in[2]
    /\ c.v_rated[1] * c.v_out[2] < c.v_out[1] * c.v_rated[2]
    /\ c.interpolation \in {"linear", "cubic"}

\* cubic mode with v_rated <= 0: the ramp rejects it with ValueError
CubicRejected(c) == c.interpolation = "cubic" /\ c.v_rated[1] <= 0

\* v_in <= x < v_rated
InRamp(x, c) == RLe(c.v_in, x) /\ RLt(x, c.v_rated)

\* prated * clamp(g(x)) on the ramp, written out from the two formulas
ExpectedRamp(x, c) ==
    LET g == IF c.interpolation = "linear"
             THEN Rat((x[1] * c.v_in[2] - c.v_in[1] * x[2]) * c.v_rated[2],
                      (c.v_rated[1] * c.v_in[2] - c.v_in[1] * c.v_rated[2]) * x[2])
             ELSE Rat(x[1] * x[1] * x[1] * c.v_rated[2] * c.v_rated[2] * c.v_rated[2],
                      x[2] * x[2] * x[2] * c.v_rated[1] * c.v_rated[1] * c.v_rated[1])
        w == IF g[1] < 0 THEN Zero ELSE IF g[1] > g[2] THEN One ELSE g
    IN  Rat(w[1] * c.prated[1], w[2] * c.prated[2])

\* ---------- properties ----------

\* C1: for a valid configuration, a call with v < v_in or v >= v_out returns
\* exactly 0; at the cut-out boundary v = v_out the result is 0, not prated.
Thm_C1_ZeroOutside ==
    (pc = "returned" /\ ValidConfig(cfg)
        /\ (RLt(v, cfg.v_in) \/ RGe(v, cfg.v_out)))
    => (p.exc = "none" /\ p.val = Zero /\ (v = cfg.v_out => p.val # cfg.prated))

Wit_C1_AtCutOut ==
    pc = "returned" /\ ValidConfig(cfg) /\ v = cfg.v_out /\ p = Return(Zero)

\* C2: for a valid configuration, a call with v_rated <= v < v_out returns
\* prated exactly in both modes, v = v_rated included.
Thm_C2_Plateau ==
    (pc = "returned" /\ ValidConfig(cfg)
        /\ RLe(cfg.v_rated, v) /\ RLt(v, cfg.v_out))
    => (p.exc = "none" /\ p.val = cfg.prated)

Wit_C2_AtRated ==
    /\ pc = "returned" /\ ValidConfig(cfg) /\ cfg.interpolation = "cubic"
    /\ v = cfg.v_rated /\ p = Return(cfg.prated)

\* C3: whenever a call returns a value p, 0 <= p <= prated, for every speed
\* and mode; in cubic mode with a negative speed the negative weight is
\* clamped to 0.
Thm_C3_PowerInRange ==
    (pc = "returned" /\ p.exc = "none")
    => (RLe(Zero, p.val) /\ RLe(p.val, cfg.prated))

Wit_C3_NegativeCubeClamped ==
    /\ pc = "returned" /\ cfg.interpolation = "cubic"
    /\ cfg.v_in[1] < 0 /\ v[1] < 0 /\ InRamp(v, cfg)
    /\ p = Return(Zero)

\* C4: for a valid configuration the power is monotonically non-decreasing
\* on the ramp: v_in <= v1 <= v2 < v_rated implies P(v1) <= P(v2), in both
\* modes (a configuration the ramp rejects returns no power there).
Thm_C4_RampMonotone ==
    \A x \in SpeedsOf(cfg) :
        (pc = "returned" /\ ValidConfig(cfg) /\ ~CubicRejected(cfg)
            /\ InRamp(v, cfg) /\ InRamp(x, cfg) /\ RLe(v, x))
        => (/\ p.exc = "none"
            /\ compute_power(x, cfg).exc = "none"
            /\ RLe(p.val, compute_power(x, cfg).val))

Wit_C4_StrictlyHigher ==
    /\ pc = "returned" /\ ValidConfig(cfg) /\ InRamp(v, cfg) /\ p.exc = "none"
    /\ \E x \in SpeedsOf(cfg) :
          /\ InRamp(x, cfg) /\ RLt(v, x)
          /\ RLt(p.val, compute_power(x, cfg).val)

\* C5: a call with prated <= 0, or thresholds not strictly ordered, or an
\* unrecognised interpolation raises ValueError and returns no power, at every
\* speed, the speeds of the zero-power regions included.
Thm_C5_InvalidConfigRaises ==
    (pc = "returned" /\ ~ValidConfig(cfg)) => p = Raise

Wit_C5_RaisesBelowCutIn ==
    /\ pc = "returned" /\ cfg.prated[1] <= 0 /\ cfg.interpolation = "linear"
    /\ RLt(cfg.v_in, cfg.v_rated) /\ RLt(cfg.v_rated, cfg.v_out)
    /\ RLt(v, cfg.v_in) /\ p = Raise

\* C6: in cubic mode a call with v_rated <= 0 raises ValueError at every
\* speed and never returns a power.
Cex_C6_CubicNonPositiveRatedRaises ==
    (pc = "returned" /\ cfg.interpolation = "cubic" /\ cfg.v_rated[1] <= 0)
    => p.exc = "ValueError"

\* C7: for a valid configuration compute_power_series returns a list as long
\* as the speeds consumed, whose i-th element is compute_power of the i-th
\* speed; it raises only when one of those calls raises.
Thm_C7_SeriesElementwise ==
    (ValidConfig(cfg) /\ ~CubicRejected(cfg) /\ pc \in {"iterating", "done", "raised"})
    => /\ pc # "raised"
       /\ Len(out) = Len(speeds)
       /\ \A i \in 1..Len(speeds) : Return(out[i]) = compute_power(speeds[i], cfg)
       /\ pc = "done" => ret = Return(out)

Wit_C7_TwoDistinctPowers ==
    /\ pc = "done" /\ ValidConfig(cfg) /\ Len(speeds) = 2
    /\ ret.exc = "none" /\ Len(ret.val) = 2 /\ ret.val[1] # ret.val[2]

\* C8: for a valid configuration, P(v) = 0 for every v below v_in; P(v_in) = 0
\* in linear mode; in cubic mode P(v_in) = prated * clamp(v_in^3 / v_rated^3),
\* which is strictly positive whenever v_in > 0.
Thm_C8_CutInBoundary ==
    (pc = "returned" /\ ValidConfig(cfg) /\ ~CubicRejected(cfg))
    => /\ RLt(v, cfg.v_in) => p = Return(Zero)
       /\ (v = cfg.v_in /\ cfg.interpolation = "linear") => p = Return(Zero)
       /\ (v = cfg.v_in /\ cfg.interpolation = "cubic")
            => /\ p = Return(ExpectedRamp(cfg.v_in, cfg))
               /\ cfg.v_in[1] > 0 => (p.val[1] > 0 /\ RLt(p.val, cfg.prated))

Wit_C8_CubicPositiveAtCutIn ==
    /\ pc = "returned" /\ ValidConfig(cfg) /\ cfg.interpolation = "cubic"
    /\ cfg.v_in[1] > 0 /\ v = cfg.v_in /\ p.exc = "none" /\ p.val[1] > 0

\* C9: for a valid configuration and v_in <= v < v_rated the call returns
\* prated * clamp(g(v)), g linear or cubic; with the defaults
\* compute_power(7, linear) = 7.5 and compute_power(5.5, cubic) = 1.875.
Thm_C9_RampFormula ==
    (pc = "returned" /\ ValidConfig(cfg) /\ ~CubicRejected(cfg) /\ InRamp(v, cfg))
    => /\ p = Return(ExpectedRamp(v, cfg))
       /\ (cfg \in DefaultConfigs /\ cfg.interpolation = "linear" /\ v = <<7, 1>>)
            => p.val = <<15, 2>>
       /\ (cfg \in DefaultConfigs /\ cfg.interpolation = "cubic" /\ v = <<11, 2>>)
            => p.val = <<15, 8>>

Wit_C9_DefaultCubicScenario ==
    /\ pc = "returned" /\ cfg \in DefaultConfigs /\ cfg.interpolation = "cubic"
    /\ v = <<11, 2>> /\ p = Return(<<15, 8>>)

\* C10: with an invalid configuration compute_power_series raises ValueError
\* before it takes any speed from the iterable: no compute_power call is
\* made, no list is built, and no list is ever returned, the empty one
\* included.
Thm_C10_SeriesValidatesFirst ==
    ~ValidConfig(cfg)
    => /\ evals = 0 /\ speeds = <<>> /\ out = <<>>
       /\ pc \in {"idle", "returned", "raised"}
       /\ pc = "raised" => ret = Raise
       /\ ret.exc # "none"

Wit_C10_RaisedBeforeAnySpeed ==
    pc = "raised" /\ ~ValidConfig(cfg) /\ evals = 0 /\ speeds = <<>> /\ ret = Raise
====
